---- MODULE Spec2Model ----
(***************************************************************************)
(* Model of the anonymous relay bot of src/main.py: the three in-memory    *)
(* stores (users_db, messages_db, reply_links), the per-user               *)
(* context.user_data["target_id"], and the four update handlers registered *)
(* in main().  The transport (the Bot API) is an external collaborator: a  *)
(* send either returns a message id that is new in the recipient's chat or *)
(* raises.                                                                 *)
(***************************************************************************)
EXTENDS Integers, FiniteSets, Sequences, TLC

\* ---------------------------------------------------------------- bounds
MaxUser   == 3      \* user ids 1..MaxUser (Telegram user ids are positive)
MaxToken  == 3      \* distinct token strings that can be issued or typed
MaxMsgId  == 2      \* message ids the transport can return
MaxEvents == 6      \* updates handled in one run
MaxTasks  == 2      \* handle_message coroutines suspended at the same time

Users  == 1..MaxUser
Tokens == 1..MaxToken
MsgIds == 1..MaxMsgId

None == 0           \* Python None / a missing dict key

\* Content kind of an inbound message: the first truthy attribute among
\* text, photo, video, voice, sticker, animation; "other" has none of them
\* (document, audio, location, contact, ...).  The updates of the model carry
\* one kind for each shape of branch in forward_message: send_message, a
\* captioned media send (photo; video and voice have the same branch and the
\* same get_message_type line), send_sticker, send_animation and the else
\* branch.
Kinds == {"text", "photo", "sticker", "animation", "other"}

NoRecord == [from |-> None, to |-> None, type |-> "none"]

VARIABLES
    users_db,     \* users_db[u] = inbox token of u, None if u is not registered
    target_id,    \* context.user_data["target_id"] of each user, None if absent
    reply_links,  \* reply_links[u], None if absent
    messages_db,  \* messages_db[m] = record stored under message id m
    inbox,        \* inbox[u][m] = sender encoded in the reply control of the
                  \* forwarded copy with id m in u's chat, None if no such copy
    cancel_ctl,   \* users whose chat holds a "Cancel" control
    tasks,        \* handle_message coroutines suspended at line 76, each with
                  \* the target it read at line 70 and two history fields:
                  \*   fresh   no pending target was set for its user since it
                  \*           read its target;
                  \*   beaten  another coroutine of the same user that read the
                  \*           same pending target has delivered its message
    last,         \* what the most recently run handler step did
    nevents       \* number of updates taken from the queue

vars == <<users_db, target_id, reply_links, messages_db, inbox, cancel_ctl,
          tasks, last, nevents>>

\* ------------------------------------------------------------ observation
\* op, user   the handler that ran and the user of its update;
\* arg        the argument of a /start command (context.args[0]), None if
\*            the command had none;
\* reply_to   the message the update refers to (replied to, or whose control
\*            was pressed), None if none;
\* to, mid    the recipient of the outbound send_* call, None if none was
\*            made, and the id it returned, None if it raised;
\* kind       the content kind of a delivered message;
\* notices    the notices the handler sent (or tried to send) to the user;
\* raised     an exception left the handler.
NoEvent ==
    [op |-> "none", user |-> None, arg |-> None, reply_to |-> None,
     to |-> None, mid |-> None, kind |-> "-", notices |-> {}, raised |-> FALSE]

Event(op, u) == [NoEvent EXCEPT !.op = op, !.user = u]

\* ------------------------------------------------------------------ Init
Init ==
    /\ users_db    = [u \in Users |-> None]
    /\ target_id   = [u \in Users |-> None]
    /\ reply_links = [u \in Users |-> None]
    /\ messages_db = [m \in MsgIds |-> NoRecord]
    /\ inbox       = [u \in Users |-> [m \in MsgIds |-> None]]
    /\ cancel_ctl  = {}
    /\ tasks       = <<>>
    /\ last        = NoEvent
    /\ nevents     = 0

\* ------------------------------------------------------- Identity registry
Issued(db) == {db[u] : u \in Users} \ {None}

\* ResolveToken that returns a registered user whatever the token is.
ResolveToken_First(db, token) ==
    IF \E u \in Users : db[u] # None
    THEN CHOOSE u \in Users : db[u] # None
    ELSE None

\* next((uid for uid, info in users_db.items() if info["inbox_token"] == token), None)
ResolveToken(db, token) ==
    IF \E u \in Users : db[u] # None /\ db[u] = token
    THEN CHOOSE u \in Users : db[u] # None /\ db[u] = token
    ELSE None

\* uuid4 that returns the same string at every call.
uuid4_Constant(db) == 1

\* str(uuid4()): a string that no earlier call returned.  Token strings are
\* named by their order of issue: the k-th call returns k.
uuid4(db) == Cardinality(Issued(db)) + 1

\* User ids are names, and no handler compares two of them except for
\* equality: users are numbered in the order of their first /start.
NextNewUser == Cardinality({u \in Users : users_db[u] # None}) + 1

\* Registered that never finds the user.
Registered_Never(db, u) == FALSE

\* Line 30: user.id in users_db.
Registered(db, u) == db[u] # None

\* OpensInbox without the comparison of line 42.
OpensInbox_NoSelfGuard(rcp, u) == rcp # None

\* Lines 41-48: the token resolves to a user other than the one typing it.
OpensInbox(rcp, u) == rcp # None /\ rcp # u

\* A pending target is set for u: the suspended coroutines of u hold an
\* earlier one.
Stale(u) ==
    [k \in DOMAIN tasks |->
        IF tasks[k].user = u THEN [tasks[k] EXCEPT !.fresh = FALSE] ELSE tasks[k]]

\* /start [arg] from user u.  A new user cannot type the token that the
\* same update is about to generate.
Start(u, arg) ==
    /\ nevents < MaxEvents
    /\ users_db[u] = None => u = NextNewUser /\ arg # uuid4(users_db)
    /\ LET db  == IF ~Registered(users_db, u)
                  THEN [users_db EXCEPT ![u] = uuid4(users_db)] ELSE users_db
           rcp == IF arg = None THEN None ELSE ResolveToken(db, arg)
           ev  == [Event("start", u) EXCEPT !.arg = arg]
       IN  /\ users_db' = db
           /\ IF OpensInbox(rcp, u)
              THEN /\ target_id'  = [target_id EXCEPT ![u] = rcp]
                   /\ cancel_ctl' = cancel_ctl \cup {u}
                   /\ tasks' = Stale(u)
                   /\ last' = [ev EXCEPT !.notices = {"type_prompt"}]
              ELSE /\ UNCHANGED <<target_id, cancel_ctl, tasks>>
                   /\ last' = [ev EXCEPT !.notices =
                                  IF rcp = u THEN {"own_inbox"} ELSE {"inbox_link"}]
    /\ nevents' = nevents + 1
    /\ UNCHANGED <<reply_links, messages_db, inbox>>

\* ---------------------------------------------------------- Conversation state
\* PendingTarget without the reply_links operand of line 70.
PendingTarget_LinkOnly(u) == target_id[u]

\* target_id = context.user_data.get("target_id") or reply_links.get(user.id)
PendingTarget(u) ==
    IF target_id[u] # None THEN target_id[u] ELSE reply_links[u]

\* ------------------------------------------------------------------ Forwarding
\* Supported with the final else branch (lines 108-110) never taken.
Supported_Any(kind) == TRUE

\* The branches of forward_message that call a send_* method on to_user.
Supported(kind) ==
    kind \in {"text", "photo", "video", "voice", "sticker", "animation"}

get_message_type(kind) ==
    CASE kind = "text"    -> "text"
      [] kind = "photo"   -> "photo"
      [] kind = "video"   -> "video"
      [] kind = "voice"   -> "voice"
      [] kind = "sticker" -> "sticker"
      [] OTHER            -> "unknown"

\* callback_data=f"reply_{from_user}" and int(query.data.split("_")[1])
CallbackData(from_user) == <<"reply", from_user>>
ParseTarget(data) == data[2]

\* What the transport does with the sends of one forward_message call:
\*   mid      id returned by the send to to_user, None if that send raised;
\*   ack_err  the notice to the sender inside the try block raised;
\*   err_err  the notice to the sender inside the except block raised.
\* A field that the call never reaches has the value FALSE.  An id is new in
\* the recipient's chat (Bot API: unique inside the chat).
AnyOutcome == [mid : {None} \cup MsgIds, ack_err : BOOLEAN, err_err : BOOLEAN]

Outcomes(ibx, to_user, kind) ==
    { o \in AnyOutcome :
        /\ o.mid # None => Supported(kind) /\ ibx[to_user][o.mid] = None
        /\ (Supported(kind) /\ o.mid = None) => ~o.ack_err
        /\ o.err_err => (Supported(kind) /\ o.mid = None) \/ o.ack_err }

\* Record with the two parties exchanged.
Record_Swapped(from_user, to_user, kind) ==
    [from |-> to_user, to |-> from_user, type |-> get_message_type(kind)]

\* Line 113: the record stored under the id of the delivered copy.
Record(from_user, to_user, kind) ==
    [from |-> from_user, to |-> to_user, type |-> get_message_type(kind)]

\* forward_message(context, from_user, to_user, message) run on stores db, ibx.
forward_message(db, ibx, from_user, to_user, kind, o) ==
    LET delivered == Supported(kind) /\ o.mid # None
        caught    == (Supported(kind) /\ o.mid = None) \/ o.ack_err
    IN  [db  |-> IF delivered
                 THEN [db EXCEPT ![o.mid] = Record(from_user, to_user, kind)]
                 ELSE db,
         ibx |-> IF delivered
                 THEN [ibx EXCEPT ![to_user][o.mid] = from_user]
                 ELSE ibx,
         sends   |-> IF Supported(kind) THEN 1 ELSE 0,
         mid     |-> IF delivered THEN o.mid ELSE None,
         notices |-> (IF delivered THEN {"sent_ok"}
                      ELSE IF ~Supported(kind) THEN {"unsupported"} ELSE {})
                     \cup (IF caught THEN {"failed"} ELSE {}),
         raised  |-> caught /\ o.err_err]

\* Messages of u's chat that an inbound message of u can be a reply to.
Repliable(u) == {m \in MsgIds : inbox[u][m] # None}

\* Lines 72-73 of handle_message: no target, the sender is told so.
Reject(u, reply_to) ==
    /\ last' = [Event("message", u) EXCEPT !.reply_to = reply_to,
                                           !.notices = {"no_destination"}]
    /\ UNCHANGED <<target_id, reply_links, messages_db, inbox>>

\* Lines 76-80 of handle_message for the target tgt read at line 70: the
\* forward, then the two pops, which an exception leaving forward_message
\* skips.
Route(u, tgt, kind, reply_to, o) ==
    /\ o \in Outcomes(inbox, tgt, kind)
    /\ LET r == forward_message(messages_db, inbox, u, tgt, kind, o)
       IN  /\ messages_db' = r.db
           /\ inbox' = r.ibx
           /\ last' = [Event("message", u) EXCEPT
                          !.reply_to = reply_to,
                          !.to = IF r.sends > 0 THEN tgt ELSE None,
                          !.mid = r.mid,
                          !.kind = IF r.mid # None THEN kind ELSE "-",
                          !.notices = r.notices,
                          !.raised = r.raised]
           /\ IF r.raised
              THEN UNCHANGED <<target_id, reply_links>>
              ELSE /\ target_id'   = [target_id EXCEPT ![u] = None]
                   /\ reply_links' = [reply_links EXCEPT ![u] = None]

NoOutcome == [mid |-> None, ack_err |-> FALSE, err_err |-> FALSE]

\* handle_message for one inbound message of user u, run to completion.
HandleMessage(u, kind, reply_to, o) ==
    /\ nevents < MaxEvents
    /\ IF PendingTarget(u) = None
       THEN o = NoOutcome /\ Reject(u, reply_to)
       ELSE Route(u, PendingTarget(u), kind, reply_to, o)
    /\ nevents' = nevents + 1
    /\ UNCHANGED <<users_db, cancel_ctl, tasks>>

\* handle_message up to its first suspension: the target is read (line 70)
\* and the coroutine waits for the transport inside forward_message.
MsgBegin(u, kind, reply_to) ==
    /\ nevents < MaxEvents
    /\ IF PendingTarget(u) = None
       THEN Reject(u, reply_to) /\ UNCHANGED tasks
       ELSE /\ Len(tasks) < MaxTasks
            /\ tasks' = Append(tasks, [user |-> u, target |-> PendingTarget(u),
                                       kind |-> kind, reply_to |-> reply_to,
                                       fresh |-> TRUE, beaten |-> FALSE])
            /\ last' = [Event("await", u) EXCEPT !.reply_to = reply_to]
            /\ UNCHANGED <<target_id, reply_links, messages_db, inbox>>
    /\ nevents' = nevents + 1
    /\ UNCHANGED <<users_db, cancel_ctl>>

\* The suspended coroutine i is resumed and runs to its end (lines 76-80).
MsgFinish(i, o) ==
    /\ i \in 1..Len(tasks)
    /\ Route(tasks[i].user, tasks[i].target, tasks[i].kind, tasks[i].reply_to, o)
    /\ LET rest == [k \in 1..(Len(tasks) - 1) |->
                        IF k < i THEN tasks[k] ELSE tasks[k + 1]]
       IN  tasks' = [k \in DOMAIN rest |->
                        IF /\ last'.mid # None
                           /\ rest[k].user = tasks[i].user
                           /\ rest[k].fresh /\ tasks[i].fresh
                        THEN [rest[k] EXCEPT !.beaten = TRUE] ELSE rest[k]]
    /\ UNCHANGED <<users_db, cancel_ctl, nevents>>

\* reply_callback: u presses the reply control of the copy m in u's chat.
ReplyCallback(u, m) ==
    /\ nevents < MaxEvents
    /\ inbox[u][m] # None
    /\ LET tgt == ParseTarget(CallbackData(inbox[u][m]))
       IN  /\ reply_links' = [reply_links EXCEPT ![u] = tgt]
           /\ last' = [Event("reply", u) EXCEPT !.reply_to = m,
                                                !.notices = {"reply_prompt"}]
    /\ tasks' = Stale(u)
    /\ nevents' = nevents + 1
    /\ UNCHANGED <<users_db, target_id, messages_db, inbox, cancel_ctl>>

\* The "^cancel$" handler, lambda u, c: u.answer(): an Update has no attribute
\* answer, so the call raises before anything is done.
Cancel(u) ==
    /\ nevents < MaxEvents
    /\ u \in cancel_ctl
    /\ last' = [Event("cancel", u) EXCEPT !.raised = TRUE]
    /\ nevents' = nevents + 1
    /\ UNCHANGED <<users_db, target_id, reply_links, messages_db, inbox,
                   cancel_ctl, tasks>>

\* Application.builder().token(...).build(): updates are processed one at a
\* time, each handler runs to completion before the next update is taken.
Next ==
    \/ \E u \in Users, arg \in Tokens \cup {None} : Start(u, arg)
    \/ \E u \in Users, kind \in Kinds, reply_to \in MsgIds \cup {None}, o \in AnyOutcome :
          /\ reply_to \in Repliable(u) \cup {None}
          /\ HandleMessage(u, kind, reply_to, o)
    \/ \E u \in Users, m \in MsgIds : ReplyCallback(u, m)
    \/ \E u \in Users : Cancel(u)

Spec == Init /\ [][Next]_vars

\* The scheduling of section 5 of the specification: updates are handled
\* concurrently, a handler can be suspended wherever it awaits the transport
\* and other handlers run meanwhile.  start, reply_callback and the cancel
\* handler change state without an await in between.
NextConcurrent ==
    \/ \E u \in Users, arg \in Tokens \cup {None} : Start(u, arg)
    \/ \E u \in Users, kind \in Kinds, reply_to \in MsgIds \cup {None} :
          /\ reply_to \in Repliable(u) \cup {None}
          /\ MsgBegin(u, kind, reply_to)
    \/ \E i \in 1..MaxTasks, o \in AnyOutcome : MsgFinish(i, o)
    \/ \E u \in Users, m \in MsgIds : ReplyCallback(u, m)
    \/ \E u \in Users : Cancel(u)

SpecConcurrent == Init /\ [][NextConcurrent]_vars

\* ======================================================================
\* Properties
\* ======================================================================
Stores == <<users_db, target_id, reply_links, messages_db, inbox>>

\* C1: a reply-control activation overwrites any pending target: when the
\* update handled right after u's activation is a message of u, that message
\* is not rejected for want of a destination and is sent to nobody but the
\* sender encoded in the activated control.
C1_ReplyTargetWins ==
    [][(/\ last.op = "reply"
        /\ last'.op = "message"
        /\ last'.user = last.user
        /\ nevents' = nevents + 1)
       => /\ "no_destination" \notin last'.notices
          /\ last'.to \in {None, inbox[last.user][last.reply_to]}]_vars

\* C2: consume-once: when a message of a sender has been delivered to the
\* sender's pending target, the sender has no pending target left, so that a
\* message of the same sender handled next is rejected and sent to nobody.
C2_ConsumeOnce ==
    (last.op = "message" /\ last.mid # None)
        => target_id[last.user] = None /\ reply_links[last.user] = None

\* C3: after the Cancel control is activated, the acting user has no pending
\* target.
C3_CancelClears ==
    last.op = "cancel"
        => target_id[last.user] = None /\ reply_links[last.user] = None

\* C4: reply-chain routing: a message of supported kind from b that replies
\* to the delivered copy m, for which a record with to = b exists, is sent to
\* the from of that record, whether or not b has a pending target, and b's
\* pending target is left as it was.
C4_ReplyChainRouting ==
    [][(/\ last'.op = "message"
        /\ nevents' = nevents + 1
        /\ last'.reply_to # None
        /\ messages_db[last'.reply_to].to = last'.user
        /\ "unsupported" \notin last'.notices)
       => /\ last'.to = messages_db[last'.reply_to].from
          /\ target_id'[last'.user] = target_id[last'.user]
          /\ reply_links'[last'.user] = reply_links[last'.user]]_vars

\* C5: self-link guard: a /start of user u with a token that resolves to u
\* sets no pending target and changes none of the stores, sends u the
\* own-inbox notice and nothing else, and makes no outbound send.
C5_SelfLinkGuard ==
    [][\A u \in Users, arg \in Tokens :
          (Start(u, arg) /\ ResolveToken(users_db, arg) = u)
          => /\ UNCHANGED Stores
             /\ UNCHANGED cancel_ctl
             /\ last'.notices = {"own_inbox"}
             /\ last'.to = None /\ last'.mid = None]_vars

\* A user who holds a pending target has just sent /start with their own
\* token, and the target is still there.
C5_Witness ==
    /\ last.op = "start"
    /\ last.notices = {"own_inbox"}
    /\ PendingTarget(last.user) # None

\* C6: every sender has at most one pending recipient, the link target and
\* the reply target counted together.
C6_OnePendingTarget ==
    \A u \in Users : Cardinality({target_id[u], reply_links[u]} \ {None}) <= 1

\* C7: a rejected input (unsupported kind, no destination, own inbox link)
\* changes no user, no pending target and no relay record.
C7_RejectionKeepsState ==
    [][(/\ nevents' = nevents + 1
        /\ \/ last'.op = "message" /\ "unsupported" \in last'.notices
           \/ last'.op = "message" /\ "no_destination" \in last'.notices
           \/ last'.op = "start" /\ "own_inbox" \in last'.notices)
       => UNCHANGED <<users_db, target_id, reply_links, messages_db>>]_vars

C9_RecordsImmutable ==
    [][\A m \in MsgIds :
          messages_db[m] # NoRecord => messages_db'[m] = messages_db[m]]_vars

\* C10: successful forward: when a sender with pending target b sends a
\* message that the transport delivers, the one outbound send went to b (one
\* new copy, in b's chat, carrying the sender in its reply control), a
\* record from the sender to b is stored under the id the transport returned,
\* and the sender is sent the success notice.
C10_SuccessfulForward ==
    [][(/\ last'.op = "message"
        /\ nevents' = nevents + 1
        /\ last'.mid # None)
       => LET a == last'.user
              b == PendingTarget(a)
          IN  /\ b # None
              /\ last'.to = b
              /\ messages_db'[last'.mid].from = a
              /\ messages_db'[last'.mid].to = b
              /\ "sent_ok" \in last'.notices
              /\ inbox[b][last'.mid] = None
              /\ inbox' = [inbox EXCEPT ![b][last'.mid] = a]]_vars

\* A message was delivered and recorded, and its sender was sent the success
\* notice and no other.
C10_Witness ==
    /\ last.op = "message"
    /\ last.mid # None
    /\ last.notices = {"sent_ok"}
    /\ messages_db[last.mid].from = last.user
    /\ messages_db[last.mid].to = last.to

\* C11: when the send to the recipient fails, no exception leaves the
\* forwarding step (and so none leaves the handler that awaits it), the
\* sender is sent the delivery-failure notice, and no record is created.
C11_DeliveryFailureContained ==
    [][(/\ last'.op = "message" /\ nevents' = nevents + 1
        /\ last'.to # None /\ last'.mid = None)
       => /\ ~last'.raised
          /\ "failed" \in last'.notices
          /\ messages_db' = messages_db]_vars

\* C12: a delivery attempt, successful or not, uses up the sender's pending
\* target: after a message for which a send to a recipient was made, the
\* sender has no pending target, so the next message is rejected.
C12_AtMostOneAttempt ==
    (last.op = "message" /\ last.to # None) => PendingTarget(last.user) = None

\* C13: a message that is none of text, photo, video, voice, animation or
\* sticker causes no send to a recipient, leaves the records (and the copies
\* the recipients hold) unchanged, and notifies nobody but its sender.
C13_UnsupportedNeverDelivered ==
    [][\A o \in AnyOutcome :
          (last'.op = "message" /\
           HandleMessage(last'.user, "other", last'.reply_to, o))
          => /\ messages_db' = messages_db
             /\ inbox' = inbox
             /\ last'.to = None /\ last'.mid = None
             /\ last'.notices \in {{"unsupported"}, {"unsupported", "failed"},
                                   {"no_destination"}}]_vars

\* An unsupported message was handed to the forwarding step.
C13_Witness ==
    last.op = "message" /\ "unsupported" \in last.notices /\ last.to = None

C15_TokenRoundTrip ==
    \A u \in Users :
        users_db[u] # None
        => /\ users_db[u] \in Tokens
           /\ \A v \in Users \ {u} : users_db[v] # users_db[u]
           /\ ResolveToken(users_db, users_db[u]) = u
           /\ {v \in Users : users_db[v] = users_db[u]} = {u}

\* All users are registered and one of them has opened another's link.
C15_Witness ==
    /\ \A u \in Users : users_db[u] # None
    /\ \E u \in Users : target_id[u] # None /\ users_db[target_id[u]] # None

\* C16: no event changes the inbox token of a registered user, and a /start
\* from a registered user leaves the whole registry as it was, so a user's
\* second /start creates no second token.
C16_TokenStability ==
    [][/\ \A u \in Users : users_db[u] # None => users_db'[u] = users_db[u]
       /\ (last'.op = "start" /\ nevents' = nevents + 1
           /\ users_db[last'.user] # None) => users_db' = users_db]_vars

\* A user who opened a link earlier, so was registered then, sends /start
\* again and is shown the inbox link.
C16_Witness ==
    /\ last.op = "start" /\ last.notices = {"inbox_link"}
    /\ last.user \in cancel_ctl
    /\ users_db[last.user] # None

\* C17: the kind stored in the record of a delivered message is the content
\* kind under which forward_message classified and delivered it.
C17_RecordedKind ==
    (last.op = "message" /\ last.mid # None)
    => messages_db[last.mid].type = last.kind

\* C18: a reply control being activated only by the user it was delivered
\* to (ReplyCallback reads the control from the activating user's own
\* chat), in every reachable state no user's link-opened or reply-set target
\* is that user, no copy in a user's chat carries a control targeting that
\* user, and no record has equal from and to.
C18_NoSelfRouting ==
    /\ \A u \in Users :
          /\ target_id[u] # u
          /\ reply_links[u] # u
          /\ \A m \in MsgIds : inbox[u][m] # u
    /\ \A m \in MsgIds :
          messages_db[m] # NoRecord => messages_db[m].from # messages_db[m].to

\* Both kinds of pending target and a record exist at once.
C18_Witness ==
    /\ \E u \in Users : target_id[u] # None
    /\ \E u \in Users : reply_links[u] # None
    /\ \E m \in MsgIds : messages_db[m] # NoRecord

\* C19: a message from S is sent to R only if S earlier issued /start with
\* R's token or a message from R was earlier delivered to S.  Stated step by
\* step: a send goes to the sender's pending target; a link-opened target
\* comes into being only by the user's own /start with the token of that
\* target; a reply target only by the user's own activation of a control in
\* their chat; and a control for R appears in S's chat only when a message
\* from R is delivered to S.
C19_AuthorizationProvenance ==
    [][nevents' = nevents + 1 =>
        LET s == last'.user IN
        /\ (last'.op = "message" /\ last'.to # None)
           => /\ last'.to \in {target_id[s], reply_links[s]}
              /\ last'.to = PendingTarget(s)
        /\ \A u \in Users :
              (target_id'[u] # target_id[u] /\ target_id'[u] # None)
              => /\ u = s /\ last'.op = "start"
                 /\ last'.arg # None
                 /\ users_db'[target_id'[u]] = last'.arg
        /\ \A u \in Users :
              (reply_links'[u] # reply_links[u] /\ reply_links'[u] # None)
              => /\ u = s /\ last'.op = "reply"
                 /\ inbox[u][last'.reply_to] = reply_links'[u]
        /\ \A u \in Users, m \in MsgIds :
              inbox'[u][m] # inbox[u][m]
              => /\ last'.op = "message" /\ last'.to = u /\ last'.mid = m
                 /\ inbox'[u][m] = s]_vars

\* A message is delivered to a user who never wrote to the sender: the
\* sender had opened that user's link.
C19_Witness ==
    /\ last.op = "message" /\ last.mid # None
    /\ last.user \in cancel_ctl
    /\ \A m \in MsgIds : inbox[last.user][m] # last.to

\* C20: the sender is sent the failure notice only for an attempt that
\* delivered nothing to the recipient and created no record.
C20_TruthfulNotices ==
    [][(last'.op = "message" /\ nevents' = nevents + 1
        /\ "failed" \in last'.notices)
       => /\ last'.mid = None
          /\ inbox' = inbox
          /\ messages_db' = messages_db]_vars

====
